---- MODULE Spec2Model ----
(***************************************************************************)
(* Model of .github/scripts/generate_readme.py: the profile README         *)
(* generator.  One run of main() is a linear pipeline                      *)
(*   load cache -> list repositories -> per repository (cache check,       *)
(*   README fetch, LLM enrichment, cache update, categorisation)           *)
(*   -> save cache -> render and write README.                             *)
(* The cache file DATA_FILE persists between runs; everything else is      *)
(* local to one run of main().                                             *)
(***************************************************************************)
EXTENDS Naturals, Integers, Sequences, FiniteSets, TLC

\* ------------------------------------------------------------------ bounds
MaxRepos == 2      \* longest repository listing returned by the API
MaxPage  == 2      \* most records on one page of the listing
MaxRuns  == 2      \* number of runs of the script in one behaviour

\* ------------------------------------------------------------- value sets
\* Python None / JSON null, kept in the same universe as strings.
None == "<None>"

Names == {"r1", "r2"}
Descs == {None, "d"}

UrlOf(n) == IF n = "r1" THEN "https://x/r1" ELSE "https://x/r2"

\* Records of the listing endpoint (name, description, html_url).
RepoRecords == {[name |-> n, description |-> d, html_url |-> UrlOf(n)] :
                  n \in Names, d \in Descs}

\* JSON values that json.loads can hand back: an object or an array.
JDict(r) == [dict |-> r]
JList    == [list |-> <<>>]
IsDict(v) == "dict" \in DOMAIN v

\* dict.get(k, default)
Get(d, k, default) == IF k \in DOMAIN d THEN d[k] ELSE default

\* Parsed message contents the LLM endpoint can answer with.
LlmPayloads ==
  { JDict([category |-> "AI", enhanced_description |-> "x"]),
    JDict([category |-> "Web"]),
    JList }

Readmes == {"", "R"}

\* `current_description or ""`
OrEmpty(desc) == IF desc = None \/ desc = "" THEN "" ELSE desc

\* The default EnrichmentResult of get_llm_description.
DefaultResult(desc) ==
  JDict([category |-> "Unclassified", enhanced_description |-> OrEmpty(desc)])

\* ------------------------------------------------------------- cache file
EmptyMap == [n \in {} |-> 0]

FileAbsent    == [kind |-> "absent",    data |-> EmptyMap]
FileMalformed == [kind |-> "malformed", data |-> EmptyMap]
FileObject(m) == [kind |-> "object",    data |-> m]
\* Parseable JSON that is not an object: the empty array.
FileArray     == [kind |-> "array",     data |-> EmptyMap]

\* Entries a cache file written by hand or by an older version can hold.
InitEntries ==
  { [description |-> "d",
     llm_data |-> JDict([category |-> "AI", enhanced_description |-> "x"]),
     last_updated |-> 0],
    [description |-> "d", last_updated |-> 0],
    [llm_data |-> JDict([category |-> "Web"]), last_updated |-> 0],
    [description |-> None,
     llm_data |-> JDict([enhanced_description |-> "x"])] }

InitMaps ==
  UNION { [S -> InitEntries] : S \in SUBSET Names }

InitCacheFiles ==
  {FileAbsent, FileMalformed, FileArray} \cup {FileObject(m) : m \in InitMaps}

\* ------------------------------------------------------------------ state
VARIABLES
  cache_file,        \* content of DATA_FILE on disk
  runs,              \* number of runs started so far
  env,               \* GITHUB_USERNAME / LLM_API_KEY set (truthy) or not
  pc,                \* position of main()
  error,             \* the exception that ended main(), if any
  cache,             \* main: cache (the entries, when it is a dict)
  cache_kind,        \* main: type of the object bound to cache
  repos,             \* fetch_github_repos: repos / main: repos
  page,              \* fetch_github_repos: page
  stop,              \* fetch_github_repos: which break ended the loop
  current_time,      \* main: current_time
  categorized_repos, \* main: categorized_repos
  updated_cache,     \* main: updated_cache
  idx,               \* main: position of the for loop in repos (1-based)
  mark,              \* calls and cache as they were when the for loop took
                     \* the current record
  readme,            \* main: readme
  attempt,           \* get_llm_description: requests.post calls made so far
  last,              \* get_llm_description: how the last request ended
  llm_data,          \* main: llm_data
  content,           \* main: content
  calls              \* this run's calls so far: README requests,
                     \* get_llm_description calls, DATA_FILE reads and
                     \* writes, README_FILE writes

vars == <<cache_file, runs, env, pc, error, cache, cache_kind, repos, page,
          stop, current_time, categorized_repos, updated_cache, idx, mark,
          readme, attempt, last, llm_data, content, calls>>

NoCalls == [readme |-> 0, enrich |-> 0,
            cache_read |-> 0, cache_write |-> 0, out_write |-> 0]

NoDoc == [updated |-> 0, sections |-> <<>>]

NoCats == [c \in {} |-> <<>>]

NoMark == [calls |-> NoCalls, cache |-> EmptyMap]

Bump(k) == [calls EXCEPT ![k] = @ + 1]

Stopped == {"idle", "returned", "done", "crashed", "killed"}

\* Values of the locals before main() has assigned them.
Locals0 ==
  /\ cache = EmptyMap
  /\ repos = <<>>
  /\ page = 1
  /\ current_time = 0
  /\ categorized_repos = NoCats
  /\ updated_cache = FALSE
  /\ idx = 1
  /\ mark = NoMark
  /\ readme = ""
  /\ attempt = 0
  /\ last = "none"
  /\ stop = "none"
  /\ cache_kind = "dict"
  /\ error = "none"
  /\ llm_data = JDict(EmptyMap)
  /\ content = NoDoc

Init ==
  /\ cache_file \in InitCacheFiles
  /\ runs = 0
  /\ env = [GITHUB_USERNAME |-> FALSE, LLM_API_KEY |-> FALSE]
  /\ pc = "idle"
  /\ Locals0
  /\ calls = NoCalls

\* ---------------------------------------------------------------- actions
\* Process start: module-level configuration is read from the environment.
StartRun ==
  /\ pc \in Stopped
  /\ runs < MaxRuns
  /\ runs' = runs + 1
  /\ \E u \in BOOLEAN, k \in BOOLEAN :
       env' = [GITHUB_USERNAME |-> u, LLM_API_KEY |-> k]
  /\ pc' = "main"
  /\ cache' = EmptyMap
  /\ repos' = <<>>
  /\ page' = 1
  /\ current_time' = 0
  /\ categorized_repos' = NoCats
  /\ updated_cache' = FALSE
  /\ idx' = 1
  /\ mark' = NoMark
  /\ readme' = ""
  /\ attempt' = 0
  /\ llm_data' = JDict(EmptyMap)
  /\ content' = NoDoc
  /\ calls' = NoCalls
  /\ last' = "none"
  /\ stop' = "none"
  /\ cache_kind' = "dict"
  /\ error' = "none"
  /\ UNCHANGED cache_file

\* Variant of NoUsername: the check of GITHUB_USERNAME is missing and main()
\* goes on to the listing.
NoUsername_Continue ==
  /\ pc = "main"
  /\ ~env.GITHUB_USERNAME
  /\ pc' = "fetch"
  /\ UNCHANGED <<cache_file, runs, env, cache, repos, page, current_time,
                 categorized_repos, updated_cache, idx, mark, readme,
                 attempt, last, llm_data, content, calls, stop, cache_kind,
                 error>>

\* main: `if not GITHUB_USERNAME: return`
NoUsername ==
  /\ pc = "main"
  /\ ~env.GITHUB_USERNAME
  /\ pc' = "returned"
  /\ UNCHANGED <<cache_file, runs, env, cache, repos, page, current_time,
                 categorized_repos, updated_cache, idx, mark, readme,
                 attempt, last, llm_data, content, calls, stop, cache_kind,
                 error>>

\* main: load cache (a failed json.load leaves cache = {}; whatever
\* json.load returns is bound to cache).
LoadCache ==
  /\ pc = "main"
  /\ env.GITHUB_USERNAME
  /\ IF cache_file.kind = "absent"
       THEN /\ cache' = EmptyMap
            /\ calls' = calls
       ELSE /\ cache' = IF cache_file.kind = "object"
                          THEN cache_file.data ELSE EmptyMap
            /\ calls' = Bump("cache_read")
  /\ pc' = "fetch"
  /\ cache_kind' = IF cache_file.kind = "array" THEN "list" ELSE "dict"
  /\ UNCHANGED <<cache_file, runs, env, repos, page, current_time,
                 categorized_repos, updated_cache, idx, mark, readme,
                 attempt, last, llm_data, content, stop, error>>

\* ------------------------------------------------- fetch_github_repos
\* Nonempty pages the listing endpoint can return.
Pages == UNION { [1..k -> RepoRecords] : k \in 1..MaxPage }

\* A 200 response with records: repos.extend(data); page += 1.
FetchPageData ==
  /\ pc = "fetch"
  /\ \E data \in Pages :
       /\ Len(repos) + Len(data) <= MaxRepos
       /\ repos' = repos \o data
  /\ page' = page + 1
  /\ UNCHANGED <<cache_file, runs, env, pc, cache, current_time,
                 categorized_repos, updated_cache, idx, mark, readme,
                 attempt, last, llm_data, content, calls, stop, cache_kind,
                 error>>

\* A 200 response with no records: break (the locals of the function end
\* with it, repos is returned).
FetchPageEmpty ==
  /\ pc = "fetch"
  /\ pc' = "listed"
  /\ page' = 1
  /\ stop' = "empty"
  /\ UNCHANGED <<cache_file, runs, env, cache, repos, current_time,
                 categorized_repos, updated_cache, idx, mark, readme,
                 attempt, last, llm_data, content, calls, cache_kind, error>>

\* Variant of FetchPageStatus: on a non-200 status the records received so
\* far are dropped.
FetchPageStatus_Drop ==
  /\ pc = "fetch"
  /\ pc' = "listed"
  /\ page' = 1
  /\ stop' = "status"
  /\ repos' = <<>>
  /\ UNCHANGED <<cache_file, runs, env, cache, current_time,
                 categorized_repos, updated_cache, idx, mark, readme,
                 attempt, last, llm_data, content, calls, cache_kind, error>>

\* A non-200 status: break.
FetchPageStatus ==
  /\ pc = "fetch"
  /\ pc' = "listed"
  /\ page' = 1
  /\ stop' = "status"
  /\ UNCHANGED <<cache_file, runs, env, cache, repos, current_time,
                 categorized_repos, updated_cache, idx, mark, readme,
                 attempt, last, llm_data, content, calls, cache_kind, error>>

\* requests.get or response.json() raises: break.
FetchPageError ==
  /\ pc = "fetch"
  /\ pc' = "listed"
  /\ page' = 1
  /\ stop' = "error"
  /\ UNCHANGED <<cache_file, runs, env, cache, repos, current_time,
                 categorized_repos, updated_cache, idx, mark, readme,
                 attempt, last, llm_data, content, calls, cache_kind, error>>

\* ------------------------------------------------------------------ main
\* Variant of NoRepos: the check of the empty listing is missing and main()
\* goes on to the loop, the save step and the rendering.
NoRepos_Continue ==
  /\ pc = "listed"
  /\ repos = <<>>
  /\ current_time' = runs
  /\ pc' = "loop"
  /\ UNCHANGED <<cache_file, runs, env, cache, repos, page,
                 categorized_repos, updated_cache, idx, mark, readme,
                 attempt, last, llm_data, content, calls, stop, cache_kind,
                 error>>

\* main: `if not repos: return`
NoRepos ==
  /\ pc = "listed"
  /\ repos = <<>>
  /\ pc' = "returned"
  /\ UNCHANGED <<cache_file, runs, env, cache, repos, page, current_time,
                 categorized_repos, updated_cache, idx, mark, readme,
                 attempt, last, llm_data, content, calls, stop, cache_kind,
                 error>>

\* main: current_time, categorized_repos = {}, updated_cache = False.
BeginProcessing ==
  /\ pc = "listed"
  /\ repos # <<>>
  /\ current_time' = runs
  /\ categorized_repos' = NoCats
  /\ updated_cache' = FALSE
  /\ idx' = 1
  /\ pc' = "loop"
  /\ stop' = "none"
  /\ UNCHANGED <<cache_file, runs, env, cache, repos, page, mark, readme,
                 attempt, last, llm_data, content, calls, cache_kind, error>>

\* The record the for loop is at.
Repo == repos[idx]

\* `name in cache and cache[name].get("description") == desc`
CacheValid(c, name, desc) ==
  /\ name \in DOMAIN c
  /\ Get(c[name], "description", None) = desc

\* Variant of CacheHit: a valid entry is enriched again all the same.
CacheHit_Reenrich ==
  /\ pc = "loop"
  /\ idx <= Len(repos)
  /\ CacheValid(cache, Repo.name, Repo.description)
  /\ "llm_data" \in DOMAIN cache[Repo.name]
  /\ mark' = [calls |-> calls, cache |-> cache]
  /\ pc' = "readme"
  /\ UNCHANGED <<cache_file, runs, env, cache, repos, page, current_time,
                 categorized_repos, updated_cache, idx, readme, attempt,
                 last, llm_data, content, calls, stop, cache_kind, error>>

\* Cache check, valid entry: llm_data = cache[name]["llm_data"].
CacheHit ==
  /\ pc = "loop"
  /\ idx <= Len(repos)
  /\ CacheValid(cache, Repo.name, Repo.description)
  /\ "llm_data" \in DOMAIN cache[Repo.name]
  /\ llm_data' = cache[Repo.name].llm_data
  /\ mark' = [calls |-> calls, cache |-> cache]
  /\ pc' = "categorize"
  /\ UNCHANGED <<cache_file, runs, env, cache, repos, page, current_time,
                 categorized_repos, updated_cache, idx, readme, attempt,
                 last, content, calls, stop, cache_kind, error>>

\* Cache check, valid entry without "llm_data": KeyError leaves main.
CacheHitKeyError ==
  /\ pc = "loop"
  /\ idx <= Len(repos)
  /\ CacheValid(cache, Repo.name, Repo.description)
  /\ "llm_data" \notin DOMAIN cache[Repo.name]
  /\ mark' = [calls |-> calls, cache |-> cache]
  /\ pc' = "crashed"
  /\ error' = "KeyError"
  /\ UNCHANGED <<cache_file, runs, env, cache, repos, page, current_time,
                 categorized_repos, updated_cache, idx, readme, attempt,
                 last, llm_data, content, calls, stop, cache_kind>>

\* Cache check, new or updated repository: go on to get_readme_content.
CacheMiss ==
  /\ pc = "loop"
  /\ idx <= Len(repos)
  /\ ~CacheValid(cache, Repo.name, Repo.description)
  /\ mark' = [calls |-> calls, cache |-> cache]
  /\ pc' = "readme"
  /\ UNCHANGED <<cache_file, runs, env, cache, repos, page, current_time,
                 categorized_repos, updated_cache, idx, readme, attempt,
                 last, llm_data, content, calls, stop, cache_kind, error>>

\* get_readme_content: one request; the decoded text, or "" on any failure.
GetReadmeContent ==
  /\ pc = "readme"
  /\ \E r \in Readmes : readme' = r
  /\ calls' = Bump("readme")
  /\ pc' = "llm"
  /\ UNCHANGED <<cache_file, runs, env, cache, repos, page, current_time,
                 categorized_repos, updated_cache, idx, mark, attempt, last,
                 llm_data, content, stop, cache_kind, error>>

\* -------------------------------------------------- get_llm_description
MaxAttempts == 3

\* Message content as a sequence of pieces: a fence tagged as JSON (three
\* backquotes and the word json), a bare fence (three backquotes), or a
\* piece of text without fence.
FenceJson == "<fence>json"
Fence     == "<fence>"

\* Texts that are JSON documents, with the value json.loads gives for them.
JsonTexts == {"obj_ai", "obj_web", "arr"}

JsonValue(t) ==
  CASE t = "obj_ai"  -> JDict([category |-> "AI", enhanced_description |-> "x"])
    [] t = "obj_web" -> JDict([category |-> "Web"])
    [] t = "arr"     -> JList

\* Message contents the LLM endpoint can answer with in a 200 response.
LlmContents ==
  { <<"obj_ai">>, <<"obj_web">>, <<"arr">>,
    <<FenceJson, "obj_ai", Fence>>,
    <<Fence, "obj_web", Fence>>,
    <<"prose", FenceJson, "obj_ai", Fence, "prose">>,
    <<"prose">>,
    <<FenceJson, "prose", Fence>>,
    <<"prose", "obj_ai">> }

Range(q) == {q[i] : i \in 1..Len(q)}

\* Index of the first piece of q that is in S.
First(q, S) ==
  CHOOSE i \in 1..Len(q) : q[i] \in S /\ \A j \in 1..(i - 1) : q[j] \notin S

\* q.split(sep)[1]: what follows the first sep.
AfterFirst(q, sep) == SubSeq(q, First(q, {sep}) + 1, Len(q))

\* q.split(fence)[0]: what precedes the first fence of either kind (a fence
\* tagged as JSON starts with a bare fence).
BeforeFence(q) ==
  IF Range(q) \cap {Fence, FenceJson} = {} THEN q
  ELSE SubSeq(q, 1, First(q, {Fence, FenceJson}) - 1)

\* Clean up potential markdown formatting.
StripFence(c) ==
  IF FenceJson \in Range(c) THEN BeforeFence(AfterFirst(c, FenceJson))
  ELSE IF Fence \in Range(c) THEN BeforeFence(AfterFirst(c, Fence))
  ELSE c

\* json.loads accepts the text: it is one JSON document and nothing else.
Parses(q) == Len(q) = 1 /\ q[1] \in JsonTexts

\* json.loads(content)
Loads(q) == JsonValue(q[1])

\* What `return json.loads(content)` can return, over the contents of the
\* model, and the contents that make it raise.
Parsed ==
  {Loads(StripFence(c)) : c \in {x \in LlmContents : Parses(StripFence(x))}}

Unparsable == {c \in LlmContents : ~Parses(StripFence(c))}

\* Variant of LlmNoKey: the check of LLM_API_KEY is missing and the request
\* is sent without a key.
LlmNoKey_Post ==
  /\ pc = "llm"
  /\ ~env.LLM_API_KEY
  /\ attempt' = 0
  /\ readme' = ""
  /\ calls' = Bump("enrich")
  /\ pc' = "post"
  /\ last' = "none"
  /\ UNCHANGED <<cache_file, runs, env, cache, repos, page, current_time,
                 categorized_repos, updated_cache, idx, mark, llm_data,
                 content, stop, cache_kind, error>>

\* `if not LLM_API_KEY: return {...}` without any request.
LlmNoKey ==
  /\ pc = "llm"
  /\ ~env.LLM_API_KEY
  /\ attempt' = 0
  /\ readme' = ""
  /\ llm_data' = DefaultResult(Repo.description)
  /\ calls' = Bump("enrich")
  /\ pc' = "store"
  /\ last' = "none"
  /\ UNCHANGED <<cache_file, runs, env, cache, repos, page, current_time,
                 categorized_repos, updated_cache, idx, mark, content, stop,
                 cache_kind, error>>

\* With a key: build prompt, headers and body, enter the retry loop.  The
\* prompt is the only reader of readme, which is not kept after it.
LlmEnter ==
  /\ pc = "llm"
  /\ env.LLM_API_KEY
  /\ attempt' = 0
  /\ readme' = ""
  /\ calls' = Bump("enrich")
  /\ pc' = "post"
  /\ last' = "none"
  /\ UNCHANGED <<cache_file, runs, env, cache, repos, page, current_time,
                 categorized_repos, updated_cache, idx, mark, llm_data,
                 content, stop, cache_kind, error>>

\* Variant of Retry: the loop has no limit (while True).
Retry_NoLimit(n) ==
  /\ pc' = "post"
  /\ llm_data' = llm_data

\* After a failed iteration: next iteration, or range(3) is exhausted and
\* the function falls through to the default result.
Retry(n) ==
  IF n < MaxAttempts
    THEN /\ pc' = "post"
         /\ llm_data' = llm_data
    ELSE /\ pc' = "store"
         /\ llm_data' = DefaultResult(Repo.description)

\* requests.post answers with a non-200 status: sleep, next iteration.
LlmStatus ==
  /\ pc = "post"
  /\ attempt < MaxAttempts
  /\ attempt' = attempt + 1
  /\ Retry(attempt + 1)
  /\ last' = "status"
  /\ UNCHANGED <<cache_file, runs, env, cache, repos, page, current_time,
                 categorized_repos, updated_cache, idx, mark, readme,
                 content, calls, stop, cache_kind, error>>

\* requests.post raises Timeout: sleep, next iteration.
LlmTimeout ==
  /\ pc = "post"
  /\ attempt < MaxAttempts
  /\ attempt' = attempt + 1
  /\ Retry(attempt + 1)
  /\ last' = "timeout"
  /\ UNCHANGED <<cache_file, runs, env, cache, repos, page, current_time,
                 categorized_repos, updated_cache, idx, mark, readme,
                 content, calls, stop, cache_kind, error>>

\* Any other exception (connection error, a body that is not the expected
\* JSON): caught by the outer handler, default result, no further iteration.
LlmException ==
  /\ pc = "post"
  /\ attempt < MaxAttempts
  /\ attempt' = attempt + 1
  /\ llm_data' = DefaultResult(Repo.description)
  /\ pc' = "store"
  /\ last' = "exception"
  /\ UNCHANGED <<cache_file, runs, env, cache, repos, page, current_time,
                 categorized_repos, updated_cache, idx, mark, readme,
                 content, calls, stop, cache_kind, error>>

\* 200 and parseable content: `return json.loads(content)`, whatever it is.
LlmSuccess ==
  /\ pc = "post"
  /\ attempt < MaxAttempts
  /\ attempt' = attempt + 1
  /\ \E v \in LlmPayloads \cap Parsed : llm_data' = v
  /\ pc' = "store"
  /\ last' = "ok"
  /\ UNCHANGED <<cache_file, runs, env, cache, repos, page, current_time,
                 categorized_repos, updated_cache, idx, mark, readme,
                 content, calls, stop, cache_kind, error>>

\* Variant of LlmParseError: a parse failure is handled like a timeout.
LlmParseError_Retry ==
  /\ pc = "post"
  /\ attempt < MaxAttempts
  /\ attempt' = attempt + 1
  /\ Unparsable # {}
  /\ Retry(attempt + 1)
  /\ last' = "badjson"
  /\ UNCHANGED <<cache_file, runs, env, cache, repos, page, current_time,
                 categorized_repos, updated_cache, idx, mark, readme,
                 content, calls, stop, cache_kind, error>>

\* 200 and content that json.loads rejects after the clean-up: the exception
\* goes to the outer handler, default result, no further iteration.
LlmParseError ==
  /\ pc = "post"
  /\ attempt < MaxAttempts
  /\ attempt' = attempt + 1
  /\ Unparsable # {}
  /\ llm_data' = DefaultResult(Repo.description)
  /\ pc' = "store"
  /\ last' = "badjson"
  /\ UNCHANGED <<cache_file, runs, env, cache, repos, page, current_time,
                 categorized_repos, updated_cache, idx, mark, readme,
                 content, calls, stop, cache_kind, error>>

\* ------------------------------------------------------------ main, cont.
\* dict item assignment d[k] = v
Put(d, k, v) == [x \in DOMAIN d \cup {k} |-> IF x = k THEN v ELSE d[x]]

NewEntry(desc, data, now) ==
  [description |-> desc, llm_data |-> data, last_updated |-> now]

\* Variant of StoreEntry: an entry that exists is kept (setdefault).
StoreEntry_KeepOld ==
  /\ pc = "store"
  /\ cache_kind = "dict"
  /\ cache' = IF Repo.name \in DOMAIN cache
                THEN cache
                ELSE Put(cache, Repo.name,
                         NewEntry(Repo.description, llm_data, current_time))
  /\ updated_cache' = TRUE
  /\ readme' = ""
  /\ attempt' = 0
  /\ pc' = "categorize"
  /\ last' = "none"
  /\ UNCHANGED <<cache_file, runs, env, repos, page, current_time,
                 categorized_repos, idx, mark, llm_data, content, calls,
                 stop, cache_kind, error>>

\* Variant of StoreEntry: the cache is saved to DATA_FILE after every
\* enrichment.
StoreEntry_Incremental ==
  /\ pc = "store"
  /\ cache_kind = "dict"
  /\ cache' = Put(cache, Repo.name,
                  NewEntry(Repo.description, llm_data, current_time))
  /\ cache_file' = FileObject(cache')
  /\ calls' = Bump("cache_write")
  /\ updated_cache' = TRUE
  /\ readme' = ""
  /\ attempt' = 0
  /\ pc' = "categorize"
  /\ last' = "none"
  /\ UNCHANGED <<runs, env, repos, page, current_time, categorized_repos,
                 idx, mark, llm_data, content, stop, cache_kind, error>>

\* cache[name] = {...}; updated_cache = True.  The locals of
\* get_llm_description are gone and go back to their start values.
StoreEntry ==
  /\ pc = "store"
  /\ cache_kind = "dict"
  /\ cache' = Put(cache, Repo.name,
                  NewEntry(Repo.description, llm_data, current_time))
  /\ updated_cache' = TRUE
  /\ readme' = ""
  /\ attempt' = 0
  /\ pc' = "categorize"
  /\ last' = "none"
  /\ UNCHANGED <<cache_file, runs, env, repos, page, current_time,
                 categorized_repos, idx, mark, llm_data, content, calls,
                 stop, cache_kind, error>>

\* cache is a list: the item assignment cache[name] = {...} raises TypeError.
StoreEntryTypeError ==
  /\ pc = "store"
  /\ cache_kind = "list"
  /\ pc' = "crashed"
  /\ error' = "TypeError"
  /\ readme' = ""
  /\ attempt' = 0
  /\ last' = "none"
  /\ UNCHANGED <<cache_file, runs, env, cache, cache_kind, repos, page,
                 stop, current_time, categorized_repos, updated_cache, idx,
                 mark, llm_data, content, calls>>

\* The row appended to categorized_repos[cat].
Item(repo, data) ==
  [name |-> repo.name, url |-> repo.html_url,
   description |-> Get(data.dict, "enhanced_description", repo.description)]

CategoryOf(data) == Get(data.dict, "category", "Unclassified")

\* Variant of Append2: categorized_repos[cat] = [item].
Append2_Overwrite(cats, cat, item) ==
  [c \in DOMAIN cats \cup {cat} |-> IF c = cat THEN <<item>> ELSE cats[c]]

\* categorized_repos[cat].append(item), with the defaultdict's empty list
Append2(cats, cat, item) ==
  [c \in DOMAIN cats \cup {cat} |->
     IF c = cat
       THEN (IF cat \in DOMAIN cats THEN cats[cat] ELSE <<>>) \o <<item>>
       ELSE cats[c]]

\* cat / new_desc / categorized_repos[cat].append(...)
Categorize ==
  /\ pc = "categorize"
  /\ IsDict(llm_data)
  /\ categorized_repos' =
       Append2(categorized_repos, CategoryOf(llm_data), Item(Repo, llm_data))
  /\ idx' = idx + 1
  /\ mark' = NoMark
  /\ pc' = "loop"
  /\ UNCHANGED <<cache_file, runs, env, cache, repos, page, current_time,
                 updated_cache, readme, attempt, last, llm_data, content,
                 calls, stop, cache_kind, error>>

\* llm_data is not a dict: llm_data.get raises AttributeError.
CategorizeAttributeError ==
  /\ pc = "categorize"
  /\ ~IsDict(llm_data)
  /\ pc' = "crashed"
  /\ error' = "AttributeError"
  /\ UNCHANGED <<cache_file, runs, env, cache, repos, page, current_time,
                 categorized_repos, updated_cache, idx, mark, readme,
                 attempt, last, llm_data, content, calls, stop, cache_kind>>

\* Variant of SaveCache: entries of repositories that are not listed are
\* cleaned out of the cache before it is saved.
SaveCache_Prune ==
  /\ pc = "loop"
  /\ idx > Len(repos)
  /\ IF updated_cache
       THEN /\ cache_file' = FileObject([n \in {x \in DOMAIN cache :
                                  \E k \in 1..Len(repos) : repos[k].name = x}
                                  |-> cache[n]])
            /\ calls' = Bump("cache_write")
       ELSE /\ cache_file' = cache_file
            /\ calls' = calls
  /\ pc' = "render"
  /\ UNCHANGED <<runs, env, cache, repos, page, current_time,
                 categorized_repos, updated_cache, idx, mark, readme,
                 attempt, last, llm_data, content, stop, cache_kind, error>>

\* Variant of SaveCache: the cache is counted as saved but the file is not
\* rewritten.
SaveCache_Skip ==
  /\ pc = "loop"
  /\ idx > Len(repos)
  /\ IF updated_cache
       THEN /\ cache_file' = cache_file
            /\ calls' = Bump("cache_write")
       ELSE /\ cache_file' = cache_file
            /\ calls' = calls
  /\ pc' = "render"
  /\ UNCHANGED <<runs, env, cache, repos, page, current_time,
                 categorized_repos, updated_cache, idx, mark, readme,
                 attempt, last, llm_data, content, stop, cache_kind, error>>

\* End of the for loop; `if updated_cache:` json.dump(cache) to DATA_FILE.
SaveCache ==
  /\ pc = "loop"
  /\ idx > Len(repos)
  /\ IF updated_cache
       THEN /\ cache_file' = FileObject(cache)
            /\ calls' = Bump("cache_write")
       ELSE /\ cache_file' = cache_file
            /\ calls' = calls
  /\ pc' = "render"
  /\ UNCHANGED <<runs, env, cache, repos, page, current_time,
                 categorized_repos, updated_cache, idx, mark, readme,
                 attempt, last, llm_data, content, stop, cache_kind, error>>

\* ---------------------------------------------------------------- render
\* Code points of the category names of the model (Python compares str
\* values code point by code point).
CodePoints(s) ==
  CASE s = "AI"           -> <<65, 73>>
    [] s = "Web"          -> <<87, 101, 98>>
    [] s = "Unclassified" -> <<85, 110, 99, 108, 97, 115, 115, 105, 102, 105,
                               101, 100>>

RECURSIVE SeqLess(_, _)
SeqLess(a, b) ==
  IF a = <<>> THEN b # <<>>
  ELSE IF b = <<>> THEN FALSE
  ELSE IF a[1] # b[1] THEN a[1] < b[1]
  ELSE SeqLess(Tail(a), Tail(b))

\* Python's `<` on two str values.
StrLess(s, t) == SeqLess(CodePoints(s), CodePoints(t))

\* Variant of Sorted: sorted(keys, reverse=True).
RECURSIVE Sorted_Reverse(_)
Sorted_Reverse(S) ==
  IF S = {} THEN <<>>
  ELSE LET m == CHOOSE x \in S : \A y \in S \ {x} : StrLess(y, x)
       IN  <<m>> \o Sorted_Reverse(S \ {m})

\* sorted(keys)
RECURSIVE Sorted(_)
Sorted(S) ==
  IF S = {} THEN <<>>
  ELSE LET m == CHOOSE x \in S : \A y \in S \ {x} : StrLess(x, y)
       IN  <<m>> \o Sorted(S \ {m})

\* `item['description'] if item['description'] else "-"`
DescText(d) == IF d = None \/ d = "" THEN "-" ELSE d

Row(item) ==
  [name |-> item.name, url |-> item.url, text |-> DescText(item.description)]

Section(cats, c) ==
  [category |-> c, rows |-> [i \in 1..Len(cats[c]) |-> Row(cats[c][i])]]

\* The document: the timestamp line, then one table per category.
Render(cats, now) ==
  LET sorted_cats == Sorted(DOMAIN cats)
  IN  [updated  |-> now,
       sections |-> [i \in 1..Len(sorted_cats) |-> Section(cats, sorted_cats[i])]]

\* Build content and write it to README_FILE.
WriteReadme ==
  /\ pc = "render"
  /\ content' = Render(categorized_repos, current_time)
  /\ calls' = Bump("out_write")
  /\ pc' = "done"
  /\ UNCHANGED <<cache_file, runs, env, cache, repos, page, current_time,
                 categorized_repos, updated_cache, idx, mark, readme,
                 attempt, last, llm_data, stop, cache_kind, error>>

\* The process is terminated from outside while main() is running; its
\* memory is gone, only the files stay.
Kill ==
  /\ pc \notin Stopped
  /\ pc' = "killed"
  /\ cache' = EmptyMap
  /\ repos' = <<>>
  /\ page' = 1
  /\ current_time' = 0
  /\ categorized_repos' = NoCats
  /\ updated_cache' = FALSE
  /\ idx' = 1
  /\ mark' = NoMark
  /\ readme' = ""
  /\ attempt' = 0
  /\ last' = "none"
  /\ stop' = "none"
  /\ cache_kind' = "dict"
  /\ error' = "none"
  /\ llm_data' = JDict(EmptyMap)
  /\ content' = NoDoc
  /\ calls' = NoCalls
  /\ UNCHANGED <<cache_file, runs, env>>

Next ==
  \/ StartRun
  \/ NoUsername
  \/ LoadCache
  \/ FetchPageData
  \/ FetchPageEmpty
  \/ FetchPageStatus
  \/ FetchPageError
  \/ NoRepos
  \/ BeginProcessing
  \/ CacheHit
  \/ CacheHitKeyError
  \/ CacheMiss
  \/ GetReadmeContent
  \/ LlmNoKey
  \/ LlmEnter
  \/ LlmStatus
  \/ LlmTimeout
  \/ LlmException
  \/ LlmSuccess
  \/ LlmParseError
  \/ StoreEntry
  \/ StoreEntryTypeError
  \/ Categorize
  \/ CategorizeAttributeError
  \/ SaveCache
  \/ WriteReadme
  \/ Kill

Spec == Init /\ [][Next]_vars

TypeOK ==
  /\ pc \in {"idle", "main", "fetch", "listed", "loop", "readme", "llm",
             "post", "store", "categorize", "render", "done", "returned",
             "crashed", "killed"}
  /\ runs \in 0..MaxRuns
  /\ Len(repos) <= MaxRepos
  /\ attempt \in 0..MaxAttempts
  /\ idx \in 1..(Len(repos) + 1)
  /\ Parsed = LlmPayloads
  /\ Unparsable = {<<"prose">>, <<FenceJson, "prose", Fence>>,
                   <<"prose", "obj_ai">>}

\* ============================================================ properties
\* main() is inside the body of the for loop, at the record repos[idx].
InRecord == pc \in {"readme", "llm", "post", "store", "categorize"}

\* The cache check of the current record found a valid entry.
Served == CacheValid(mark.cache, Repo.name, Repo.description)

\* The valid entry holds an EnrichmentResult.
ServedResult == Served /\ "llm_data" \in DOMAIN mark.cache[Repo.name]

\* C1: a listed repository whose name is in the cache with a cached
\* description equal to the upstream one causes no README request and no
\* get_llm_description call (hence no LLM request), the cached
\* EnrichmentResult is the llm_data the row is built from, and the cache is
\* left as it was.
C1_CacheHitReusesEntry ==
  (InRecord /\ ServedResult) =>
     /\ pc = "categorize"
     /\ calls = mark.calls
     /\ attempt = 0
     /\ llm_data = mark.cache[Repo.name].llm_data
     /\ cache = mark.cache

\* A second run serves a record from the entry the first run cached.
C1_Witness ==
  /\ pc = "categorize"
  /\ ServedResult
  /\ runs = 2
  /\ Get(mark.cache[Repo.name], "last_updated", 0) = 1
  /\ llm_data = mark.cache[Repo.name].llm_data
  /\ CategoryOf(llm_data) = "AI"
  /\ calls.readme = 0
  /\ calls.enrich = 0

\* C2: a listed repository that is new or whose upstream description differs
\* from the cached one gets exactly one get_llm_description call of at most
\* three requests, and its cache entry is overwritten with the new result,
\* the upstream description and this run's timestamp.
C2_MissEnrichesOnceAndOverwrites ==
  /\ attempt <= 3
  /\ (pc = "post" => attempt < 3)
  /\ (InRecord /\ ~Served /\ pc = "categorize") =>
        /\ calls.enrich = mark.calls.enrich + 1
        /\ Repo.name \in DOMAIN cache
        /\ cache[Repo.name] = [description |-> Repo.description,
                               llm_data |-> llm_data,
                               last_updated |-> current_time]
        /\ current_time = runs

\* A changed description: the old entry held a result, the new entry holds
\* the fresh answer of the LLM, obtained at the third request.
C2_Witness ==
  /\ pc = "categorize"
  /\ ~Served
  /\ Repo.name \in DOMAIN mark.cache
  /\ "llm_data" \in DOMAIN mark.cache[Repo.name]
  /\ cache[Repo.name] # mark.cache[Repo.name]
  /\ cache[Repo.name].llm_data = llm_data
  /\ IsDict(llm_data)
  /\ CategoryOf(llm_data) = "AI"
  /\ calls.enrich = mark.calls.enrich + 1

\* C3: whatever the LLM endpoint answers for a repository, main() does not
\* end with an exception raised on the value get_llm_description returned.
C3_EnrichmentNeverAborts ==
  ~(pc = "crashed" /\ error = "AttributeError" /\ ~Served)

\* C4: when the enrichment of a repository fails or is skipped and yields
\* the default result, the cache entry of that repository is neither created
\* nor overwritten.
C4_CacheUntouchedOnDefault ==
  (pc = "categorize" /\ ~Served /\ llm_data = DefaultResult(Repo.description))
    => /\ (Repo.name \in DOMAIN cache) = (Repo.name \in DOMAIN mark.cache)
       /\ (Repo.name \in DOMAIN mark.cache
             => cache[Repo.name] = mark.cache[Repo.name])

\* C5: with an empty repository list main() returns right after the listing:
\* no DATA_FILE write, no README_FILE write, no README request and no
\* get_llm_description call or LLM request.
C5_EmptyListingWritesNothing ==
  (env.GITHUB_USERNAME /\ repos = <<>> /\ pc \notin {"idle", "main", "fetch", "killed"})
    => /\ pc \in {"listed", "returned"}
       /\ calls.cache_write = 0
       /\ calls.out_write = 0
       /\ calls.readme = 0
       /\ calls.enrich = 0
       /\ attempt = 0

\* The listing failed on its first page and main() has returned.
C5_Witness ==
  /\ pc = "returned"
  /\ env.GITHUB_USERNAME
  /\ repos = <<>>
  /\ calls.cache_read = 1
  /\ calls.cache_write = 0
  /\ calls.out_write = 0

\* C6 (as stated): without an LLM credential every EnrichmentResult a row is
\* built from is the default one, and no LLM request is made.
C6_EveryResultDefault ==
  ~env.LLM_API_KEY =>
     /\ pc # "post"
     /\ attempt = 0
     /\ (pc = "categorize" =>
           llm_data = [dict |-> [category |-> "Unclassified",
                                 enhanced_description |->
                                   IF Repo.description = None
                                     THEN "" ELSE Repo.description]])

\* C6 (amended): without an LLM credential no LLM request is made and every
\* EnrichmentResult that get_llm_description returns, that is the one of
\* every repository not served from the cache, is the default one.
C6_ComputedResultsDefault ==
  ~env.LLM_API_KEY =>
     /\ pc # "post"
     /\ attempt = 0
     /\ ((pc = "store" \/ (pc = "categorize" /\ ~Served)) =>
           llm_data = [dict |-> [category |-> "Unclassified",
                                 enhanced_description |->
                                   IF Repo.description = None
                                     THEN "" ELSE Repo.description]])

\* No credential, a repository without description was sent to
\* get_llm_description and came back with the default result.
C6_Witness ==
  /\ pc = "store"
  /\ ~env.LLM_API_KEY
  /\ Repo.description = None
  /\ calls.enrich = 1
  /\ llm_data = [dict |-> [category |-> "Unclassified",
                           enhanced_description |-> ""]]

\* The written document and its sections.
Sections == content.sections

\* Name and link of the records that a choice f of section per record puts
\* into section s, in listing order, from record i on.
RECURSIVE Pick(_, _, _)
Pick(f, s, i) ==
  IF i > Len(repos) THEN <<>>
  ELSE (IF f[i] = s
          THEN <<[name |-> repos[i].name, url |-> repos[i].html_url]>>
          ELSE <<>>) \o Pick(f, s, i + 1)

Links(rows) == [k \in 1..Len(rows) |-> [name |-> rows[k].name, url |-> rows[k].url]]

\* C7: in the written document the category sections are in strictly
\* increasing lexicographic order of their names, whatever the order of the
\* listing, and the rows of each section follow the listing order.
C7_SectionsSortedRowsInListingOrder ==
  pc = "done" =>
    /\ \A i \in 1..(Len(Sections) - 1) :
          SeqLess(CodePoints(Sections[i].category),
                  CodePoints(Sections[i + 1].category))
    /\ \E f \in [1..Len(repos) -> 1..Len(Sections)] :
          \A s \in 1..Len(Sections) : Links(Sections[s].rows) = Pick(f, s, 1)

\* Two repositories listed in the reverse order of their categories.
C7_Witness ==
  /\ pc = "done"
  /\ Len(Sections) = 2
  /\ Len(repos) = 2
  /\ repos[1].name # repos[2].name
  /\ Sections[1].rows[1].name = repos[2].name
  /\ Sections[2].rows[1].name = repos[1].name
  /\ Sections[1].category = "AI"
  /\ Sections[2].category = "Unclassified"

\* C8: DATA_FILE is read once, at the start of a run, and written at most
\* once, after the last listed repository has been processed and only if
\* get_llm_description was called in the run; no other step changes the
\* file, so a run that stops before the save step leaves it as it was.
C8_Step ==
  /\ (calls'.cache_read > calls.cache_read) =>
        /\ pc = "main"
        /\ calls.cache_read = 0
        /\ page = 1
        /\ repos = <<>>
  /\ (calls'.cache_write > calls.cache_write) =>
        /\ pc = "loop"
        /\ idx = Len(repos) + 1
        /\ calls.cache_write = 0
        /\ calls.enrich >= 1
        /\ calls.out_write = 0
  /\ (cache_file' # cache_file) => (calls'.cache_write > calls.cache_write)

C8_ReadOnceWriteOnceAtEnd == [][C8_Step]_vars

\* A run that read the file, enriched a repository and saved the cache.
C8_Witness ==
  /\ pc = "done"
  /\ calls.cache_read = 1
  /\ calls.cache_write = 1
  /\ calls.enrich >= 1
  /\ cache_file = FileObject(cache)

\* C9: without GITHUB_USERNAME main() returns at once: no listing, README or
\* LLM request, DATA_FILE neither read nor written, README_FILE not written.
C9_NoUsernameNoActivity ==
  ~env.GITHUB_USERNAME =>
     /\ pc \in {"idle", "main", "returned", "killed"}
     /\ calls = NoCalls
     /\ attempt = 0
     /\ cache = EmptyMap
     /\ content = NoDoc

\* A run without GITHUB_USERNAME has returned; the cache file of the
\* previous run is there.
C9_Witness ==
  /\ pc = "returned"
  /\ ~env.GITHUB_USERNAME
  /\ runs = 2
  /\ cache_file.kind = "object"
  /\ calls = NoCalls

\* C10: a cache entry that lacks a key never makes the run fail: main() does
\* not end with an exception at a record it serves from the cache.
C10_MissingKeysTolerated ==
  ~(pc = "crashed" /\ Served)

\* The result get_llm_description returns when it gives up: the category
\* "Unclassified" and the description of the record, "" when it has none.
GaveUp ==
  llm_data = JDict([category |-> "Unclassified",
                    enhanced_description |->
                      IF Repo.description = None THEN "" ELSE Repo.description])

\* C11: with an API key, one call of get_llm_description sends at most three
\* requests; a further request is sent only when every request before it
\* ended in a non-200 status or a timeout; when the three requests are used
\* up, or an exception ends the loop, the call returns the default result,
\* and main() never ends with an exception inside the call.
C11_AtMostThreeRequestsThenDefault ==
  /\ attempt <= 3
  /\ pc = "post" =>
       /\ env.LLM_API_KEY
       /\ attempt < 3
       /\ (attempt = 0) <=> (last = "none")
       /\ last \in {"none", "status", "timeout"}
  /\ (pc = "store" /\ last \in {"status", "timeout"}) =>
       (attempt = 3 /\ GaveUp)
  /\ (pc = "store" /\ last = "exception") =>
       (attempt \in 1..3 /\ GaveUp)
  /\ pc = "crashed" => (attempt = 0 /\ last = "none")

\* Three requests were sent, the last one timed out, and the call has
\* returned the default result.
C11_Witness ==
  /\ pc = "store"
  /\ env.LLM_API_KEY
  /\ attempt = 3
  /\ last = "timeout"
  /\ GaveUp

\* C12: a 200 response whose content json.loads rejects after the fences
\* are stripped ends the call: no request follows it, and the call returns
\* the default result.
C12_ParseFailureIsFatal ==
  /\ last = "badjson" => pc = "store"
  /\ (pc = "store" /\ last = "badjson") => (attempt \in 1..3 /\ GaveUp)

\* The first request was answered with 200 and unparsable content, and the
\* call has returned the default result without a second request.
C12_Witness ==
  /\ pc = "store"
  /\ last = "badjson"
  /\ attempt = 1
  /\ calls.enrich = mark.calls.enrich + 1
  /\ GaveUp

\* A step of fetch_github_repos: page `page` is requested; a page with
\* records is appended and the next page is the one after it; an empty
\* page, a non-200 status or an exception ends the function with the
\* records received so far.
C13_Step ==
  /\ (pc # "fetch" /\ pc' = "fetch") => (page' = 1 /\ repos' = <<>>)
  /\ pc' = "listed" => pc = "fetch"
  /\ pc = "fetch" =>
       \/ /\ pc' = "fetch"
          /\ page' = page + 1
          /\ Len(repos') > Len(repos)
          /\ SubSeq(repos', 1, Len(repos)) = repos
          /\ stop' = stop
       \/ /\ pc' = "listed"
          /\ stop' \in {"empty", "status", "error"}
          /\ repos' = repos
       \/ pc' = "killed"
       \/ UNCHANGED vars

\* C13: fetch_github_repos requests the pages 1, 2, 3, ... in order, stops
\* at the first page that is empty, has a non-200 status or raises, returns
\* the records of the pages before it in page order, and never raises.
C13_PagesInOrderPartialKept == [][C13_Step]_vars

\* The listing ended at a page with a non-200 status and the records of the
\* pages before it are what fetch_github_repos returned.
C13_Witness ==
  /\ pc = "listed"
  /\ stop = "status"
  /\ Len(repos) = 2

\* C14: whatever DATA_FILE holds that is not a JSON object (nothing, text
\* that is not JSON, JSON of another type), main() does not end with an
\* exception.
C14_BadCacheNeverFatal ==
  ~(pc = "crashed" /\ cache_file.kind # "object")

\* The names of the listing of the run.
Listed == {repos[i].name : i \in 1..Len(repos)}

\* A step leaves every entry of DATA_FILE in the file, and the entry of a
\* name that is not listed as it was.
C15_Step ==
  \A n \in DOMAIN cache_file.data :
     /\ n \in DOMAIN cache_file'.data
     /\ n \notin Listed => cache_file'.data[n] = cache_file.data[n]

\* C15: the set of names in DATA_FILE never shrinks, and the entry of a name
\* that is not listed is written back unchanged when the cache is saved.
C15_CacheKeysNeverShrink == [][C15_Step]_vars

\* The second run has saved the cache, and the entry that the first run
\* wrote for a name the second listing does not have is in the file as the
\* first run wrote it.
C15_Witness ==
  /\ pc = "render"
  /\ runs = 2
  /\ calls.cache_write = 1
  /\ \E n \in DOMAIN cache_file.data :
        /\ n \notin Listed
        /\ "last_updated" \in DOMAIN cache_file.data[n]
        /\ cache_file.data[n].last_updated = 1
  /\ \E n \in DOMAIN cache_file.data :
        /\ "last_updated" \in DOMAIN cache_file.data[n]
        /\ cache_file.data[n].last_updated = 2

\* Number of rows of the sections i.. of the written document.
RECURSIVE RowCount(_)
RowCount(i) ==
  IF i > Len(Sections) THEN 0 ELSE Len(Sections[i].rows) + RowCount(i + 1)

\* C16: the written document has as many rows as the listing has records,
\* repeated names included, every record has its row in some section, no
\* two sections have the same category, and no section is without rows.
C16_OneRowPerRecord ==
  pc = "done" =>
    /\ RowCount(1) = Len(repos)
    /\ \A s \in 1..Len(Sections) : Len(Sections[s].rows) >= 1
    /\ \A s, t \in 1..Len(Sections) :
          Sections[s].category = Sections[t].category => s = t
    /\ \A i \in 1..Len(repos) :
          \E s \in 1..Len(Sections) : \E k \in 1..Len(Sections[s].rows) :
             /\ Sections[s].rows[k].name = repos[i].name
             /\ Sections[s].rows[k].url = repos[i].html_url

\* A listing with the same name twice has given two rows of one section.
C16_Witness ==
  /\ pc = "done"
  /\ Len(repos) = 2
  /\ repos[1].name = repos[2].name
  /\ Len(Sections) = 1
  /\ Len(Sections[1].rows) = 2

\* The entry of DATA_FILE for the record repos[i] has the description of
\* the record.
EntryDescribes(i) ==
  /\ cache_file.kind = "object"
  /\ repos[i].name \in DOMAIN cache_file.data
  /\ Get(cache_file.data[repos[i].name], "description", None)
       = repos[i].description

\* The entry of DATA_FILE for the record repos[i] holds the enrichment that
\* the row of the record in the written document was built from.
EntryRendered(i) ==
  /\ cache_file.kind = "object"
  /\ repos[i].name \in DOMAIN cache_file.data
  /\ LET e == cache_file.data[repos[i].name]
     IN  /\ "llm_data" \in DOMAIN e
         /\ IsDict(e.llm_data)
         /\ \E s \in 1..Len(Sections) :
               /\ Sections[s].category = CategoryOf(e.llm_data)
               /\ \E k \in 1..Len(Sections[s].rows) :
                     Sections[s].rows[k] =
                       [name |-> repos[i].name,
                        url  |-> repos[i].html_url,
                        text |-> DescText(Get(e.llm_data.dict,
                                              "enhanced_description",
                                              repos[i].description))]

ListedOnce(i) == \A j \in 1..Len(repos) : repos[j].name = repos[i].name => j = i

LastListed(i) == \A j \in (i + 1)..Len(repos) : repos[j].name # repos[i].name

\* README_FILE is written only by a run that is past its cache save step.
WrittenAfterSave ==
  /\ calls.out_write >= 1 => pc = "done"
  /\ (pc = "done" /\ updated_cache) =>
        (calls.cache_write = 1 /\ cache_file = FileObject(cache))

\* C17 as stated: once a run has written README_FILE, DATA_FILE has for
\* every listed record an entry whose enrichment is the one the row of the
\* record was rendered from, and whose description is the upstream one when
\* the name is listed once.
C17_FileMatchesEveryRow ==
  /\ WrittenAfterSave
  /\ pc = "done" =>
       \A i \in 1..Len(repos) :
          /\ ListedOnce(i) => EntryDescribes(i)
          /\ EntryRendered(i)

\* C17 amended: once a run has written README_FILE, DATA_FILE has for every
\* listed name an entry with the description and the enrichment of the last
\* record listed under that name, the enrichment that record's row was
\* rendered from.
C17_FileMatchesLastRecordOfName ==
  /\ WrittenAfterSave
  /\ pc = "done" =>
       \A i \in 1..Len(repos) :
          LastListed(i) => (EntryDescribes(i) /\ EntryRendered(i))

\* Two different names were enriched in the run, the cache was saved and the
\* document written.
C17_Witness ==
  /\ pc = "done"
  /\ calls.cache_write = 1
  /\ calls.enrich = 2
  /\ Len(repos) = 2
  /\ repos[1].name # repos[2].name
  /\ EntryRendered(1)
  /\ EntryRendered(2)

====
